---- MODULE Spec2Model ----
(***************************************************************************)
(* Governance program: the CastVote processor (process_cast_vote.rs) and   *)
(* the InsertInstruction processor (process_insert_instruction.rs).        *)
(*                                                                         *)
(* Accounts are records addressed by key.  Each processor is one action:   *)
(* it works on local copies of the accounts it deserializes, writes them   *)
(* back with serialize(), and the runtime keeps the writes only when the   *)
(* processor returns Ok.                                                   *)
(***************************************************************************)
EXTENDS Integers, Sequences, FiniteSets, TLC

\* ------------------------------------------------------------------ bounds

\* Largest value of the u32 vote counters of a TokenOwnerRecord (scaled).
MaxCount == 3
\* Largest value of a u64 vote weight (scaled).
MaxWeight == 5
\* Last clock value the model visits.
MaxNow == 1
\* Most instructions the model appends over all ProposalTransaction accounts.
MaxInstructions == 2

\* ------------------------------------------------------------- the universe

\* Option values: None is the empty sequence, Some(x) the one-element sequence.
None == <<>>
Some(x) == <<x>>

Records == {"r1", "r2"}
Proposals == {"p1", "p2"}
Identities == {"alice", "bob"}
Transactions == {"t1", "t2", "t3"}

\* The VoteRecord address derived from the seeds (proposal, token owner record).
get_vote_record_address(p, r) == <<p, r>>

VoteRecordAddresses == {get_vote_record_address(p, r) : p \in Proposals, r \in Records}

\* Vote values.  An Approve vote carries one choice per position; a choice is
\* its weight_percentage (100 selects the option, 0 does not).
Approve(choices) == [kind |-> "Approve", choices |-> choices]
Deny == [kind |-> "Deny", choices |-> <<>>]
Abstain == [kind |-> "Abstain", choices |-> <<>>]
Veto == [kind |-> "Veto", choices |-> <<>>]

Votes ==
    { Approve(<<100, 0>>), Approve(<<0, 100>>), Approve(<<100, 100>>),
      Approve(<<100>>), Deny, Abstain, Veto }

\* Voter-weight attestations an addin may have left for the cast to consume.
VoterWeightRecords ==
    { None,
      Some([voter_weight |-> 1, weight_action |-> "CastVote", weight_action_target |-> "p1"]),
      Some([voter_weight |-> MaxWeight, weight_action |-> "CastVote", weight_action_target |-> "p1"]),
      Some([voter_weight |-> 1, weight_action |-> "CastVote", weight_action_target |-> "p2"]) }

\* Supply of the governing token mint: the max voter weight without an addin.
MintSupply == 3

\* Max-voter-weight attestations.
MaxVoterWeightRecords == { None, Some([max_voter_weight |-> MintSupply]) }
\* Approval quorum of the governance config, in percent of the max voter weight.
VoteThresholdPercentage == 60
\* Voting window of the governance config: voting is open while
\* now <= voting_at + max_voting_time.
MaxVotingTime == 0

\* Instruction inputs of InsertInstruction.
InstructionKeys == { <<>>, <<"k1">>, <<"k1", "k2">> }
AccountMetas ==
    { <<>>,
      <<[is_signer |-> TRUE, is_writable |-> FALSE]>>,
      <<[is_signer |-> TRUE, is_writable |-> FALSE],
        [is_signer |-> FALSE, is_writable |-> TRUE]>> }
InstructionPrograms == {"prog"}
InstructionPayloads == {"d1"}

VARIABLES
    token_owner_records,    \* TokenOwnerRecord accounts, by key
    proposals,              \* Proposal accounts, by key
    realm,                  \* the Realm account (with its config)
    governance,             \* the Governance account
    vote_records,           \* VoteRecord accounts, by address (None = empty)
    proposal_transactions,  \* ProposalTransaction accounts, by key
    now,                    \* Clock::get().unix_timestamp
    last,                   \* the last instruction processed and its result
    history                 \* per proposal: what the committed casts did

vars ==
    << token_owner_records, proposals, realm, governance, vote_records,
       proposal_transactions, now, last, history >>

\* ------------------------------------------------------------------ helpers

Min(a, b) == IF a < b THEN a ELSE b

RECURSIVE SumSeq(_)
SumSeq(s) == IF s = <<>> THEN 0 ELSE Head(s) + SumSeq(Tail(s))

\* Mutant: wrapping_add, the sum modulo the width.
wrapping_add(a, b, max) == Some((a + b) % (max + 1))

\* u32/u64 checked_add: None on overflow.
checked_add(a, b, max) == IF a + b > max THEN None ELSE Some(a + b)

\* saturating_sub(1)
saturating_sub(a, b) == IF a < b THEN 0 ELSE a - b

\* ------------------------------------------- collaborators of the processors

\* Proposal::assert_can_cast_vote: the proposal is Voting and the voting time
\* has not ended.
assert_can_cast_vote(proposal_data, unix_timestamp) ==
    /\ proposal_data.state = "Voting"
    /\ unix_timestamp <= proposal_data.voting_at + MaxVotingTime

\* Proposal::assert_can_edit_instructions: only a Draft proposal is editable.
assert_can_edit_instructions(proposal_data) ==
    proposal_data.state = "Draft"

\* TokenOwnerRecord::assert_token_owner_or_delegate_is_signer
assert_token_owner_or_delegate_is_signer(record_data, authority) ==
    \/ authority = record_data.governing_token_owner
    \/ record_data.governance_delegate = Some(authority)

\* TokenOwnerRecord::decrease_outstanding_proposal_count: saturates at zero.
decrease_outstanding_proposal_count(record_data) ==
    [record_data EXCEPT
        !.outstanding_proposal_count = saturating_sub(@, 1)]

\* get_token_owner_record_data_for_proposal_owner: the account supplied must be
\* the record the proposal names as its owner.
is_proposal_owner_record(record_key, proposal_data) ==
    record_key = proposal_data.token_owner_record

\* TokenOwnerRecord::resolve_voter_weight: the deposit, or with a voter-weight
\* addin the attestation, which must be scoped to the action and the target.
resolve_voter_weight(record_data, realm_data, voter_weight_record, action, target) ==
    IF ~realm_data.use_voter_weight_addin
    THEN [err |-> "Ok", weight |-> record_data.governing_token_deposit_amount]
    ELSE IF voter_weight_record = None
    THEN [err |-> "AttestationNotFound", weight |-> 0]
    ELSE IF \/ voter_weight_record[1].weight_action # action
            \/ voter_weight_record[1].weight_action_target # target
    THEN [err |-> "AttestationScopeMismatch", weight |-> 0]
    ELSE [err |-> "Ok", weight |-> voter_weight_record[1].voter_weight]

\* Proposal::resolve_max_voter_weight: the mint supply, or with a
\* max-voter-weight addin the attestation.
resolve_max_voter_weight(realm_data, max_voter_weight_record) ==
    IF ~realm_data.use_max_voter_weight_addin
    THEN [err |-> "Ok", weight |-> MintSupply]
    ELSE IF max_voter_weight_record = None
    THEN [err |-> "AttestationNotFound", weight |-> 0]
    ELSE [err |-> "Ok", weight |-> max_voter_weight_record[1].max_voter_weight]

\* Number of options an Approve vote selects.
SelectedCount(choices) ==
    Cardinality({i \in 1..Len(choices) : choices[i] = 100})

\* Proposal::assert_valid_vote: an Approve vote has one choice per option, each
\* 0 or 100, and selects exactly one option (SingleChoice) or at least one
\* (MultiChoice); a Deny vote needs the deny option.  Abstain and Veto have no
\* shape to validate.
assert_valid_vote(proposal_data, vote) ==
    CASE vote.kind = "Approve" ->
            /\ Len(vote.choices) = Len(proposal_data.options)
            /\ \A i \in 1..Len(vote.choices) : vote.choices[i] \in {0, 100}
            /\ IF proposal_data.vote_type = "SingleChoice"
               THEN SelectedCount(vote.choices) = 1
               ELSE SelectedCount(vote.choices) >= 1
      [] vote.kind = "Deny" -> proposal_data.deny_vote_weight # None
      [] OTHER -> TRUE

\* VoteChoice::get_choice_weight: the whole voter weight for a selected
\* option, nothing for an unselected one.
get_choice_weight(choice, voter_weight) ==
    IF choice = 100 THEN Some(voter_weight)
    ELSE IF choice = 0 THEN Some(0)
    ELSE None

Max(a, b) == IF a > b THEN a ELSE b

RECURSIVE MaxSeq(_)
MaxSeq(s) == IF s = <<>> THEN 0 ELSE Max(Head(s), MaxSeq(Tail(s)))

\* Proposal::try_tip_vote: the state the tallies already decide, or Voting.
try_tip_vote(proposal_data, max_voter_weight) ==
    LET yes == MaxSeq(proposal_data.options)
        deny == IF proposal_data.deny_vote_weight = None
                THEN 0 ELSE proposal_data.deny_vote_weight[1]
    IN  IF yes * 100 >= VoteThresholdPercentage * max_voter_weight /\ yes > deny
        THEN "Succeeded"
        ELSE IF deny > 0 /\ deny * 100 >= (100 - VoteThresholdPercentage) * max_voter_weight
        THEN "Defeated"
        ELSE "Voting"

\* create_and_serialize_account_signed: the account supplied must be the
\* address derived from the seeds.
create_address_matches(vote_record_info, proposal_info, voter_token_owner_record_info) ==
    vote_record_info = get_vote_record_address(proposal_info, voter_token_owner_record_info)

\* ------------------------------------------------------- process_cast_vote

\* The accounts as they are now.
Accounts ==
    [ token_owner_records |-> token_owner_records,
      proposals |-> proposals,
      realm |-> realm,
      governance |-> governance,
      vote_records |-> vote_records,
      proposal_transactions |-> proposal_transactions ]

\* What a processor returns: its result and the account data as it left it.
Result(err, accounts, tipped, voter_weight) ==
    [ err |-> err, accounts |-> accounts, tipped |-> tipped,
      voter_weight |-> voter_weight ]

\* A return before anything was written.
Fail(err) == Result(err, Accounts, FALSE, 0)

\* Mutant: the replay check is missing.
vote_record_is_empty_never_checked(vote_record_info) == TRUE

\* vote_record_info.data_is_empty()
vote_record_is_empty(vote_record_info) ==
    vote_records[vote_record_info] = None

\* Mutant: the choice weight replaces the option's weight instead of being
\* added to it.
approve_option_overwrites(options, choices, voter_weight, i) ==
    IF i > Len(choices) THEN [err |-> "Ok", weight |-> options[i]]
    ELSE LET cw == get_choice_weight(choices[i], voter_weight)
         IN  IF cw = None THEN [err |-> "InvalidVoteType", weight |-> 0]
             ELSE [err |-> "Ok", weight |-> cw[1]]

\* Mutant: every option zipped with a choice gets the voter weight, selected or
\* not.
approve_option_ignores_choice(options, choices, voter_weight, i) ==
    IF i > Len(choices) THEN [err |-> "Ok", weight |-> options[i]]
    ELSE LET sum == checked_add(options[i], voter_weight, MaxWeight)
         IN  IF sum = None THEN [err |-> "Panic", weight |-> 0]
             ELSE [err |-> "Ok", weight |-> sum[1]]

\* The Approve arm: option.vote_weight.checked_add(choice.get_choice_weight(w)?)
\* over options zipped with choices.  The new weight of option i, or the way
\* the step for option i fails.
approve_option(options, choices, voter_weight, i) ==
    IF i > Len(choices) THEN [err |-> "Ok", weight |-> options[i]]
    ELSE LET cw == get_choice_weight(choices[i], voter_weight)
         IN  IF cw = None THEN [err |-> "InvalidVoteType", weight |-> 0]
             ELSE LET sum == checked_add(options[i], cw[1], MaxWeight)
                  IN  IF sum = None THEN [err |-> "Panic", weight |-> 0]
                      ELSE [err |-> "Ok", weight |-> sum[1]]

\* Mutant: a Deny vote is counted on the first option too.
apply_vote_deny_counts_on_option(proposal_data, vote, voter_weight) ==
    CASE vote.kind = "Approve" ->
            LET step(i) == approve_option(proposal_data.options, vote.choices, voter_weight, i)
                bad == {i \in 1..Len(proposal_data.options) : step(i).err # "Ok"}
            IN  IF bad # {}
                THEN [err |-> step(CHOOSE i \in bad : \A j \in bad : i <= j).err,
                      proposal |-> proposal_data]
                ELSE [err |-> "Ok",
                      proposal |-> [proposal_data EXCEPT
                          !.options = [i \in 1..Len(proposal_data.options) |-> step(i).weight]]]
      [] vote.kind = "Deny" ->
            IF proposal_data.deny_vote_weight = None
            THEN [err |-> "Panic", proposal |-> proposal_data]
            ELSE LET sum == checked_add(proposal_data.deny_vote_weight[1], voter_weight, MaxWeight)
                 IN  IF sum = None
                     THEN [err |-> "Panic", proposal |-> proposal_data]
                     ELSE [err |-> "Ok",
                           proposal |-> [proposal_data EXCEPT
                               !.deny_vote_weight = sum,
                               !.options[1] = Min(@ + voter_weight, MaxWeight)]]
      [] OTHER -> [err |-> "NotSupportedVoteType", proposal |-> proposal_data]

\* Mutant: the Abstain | Veto arm falls through instead of returning the error.
apply_vote_accepts_all_kinds(proposal_data, vote, voter_weight) ==
    [err |-> "Ok", proposal |-> proposal_data]

\* The match on the vote: the tallies after the vote, or the failure.
apply_vote(proposal_data, vote, voter_weight) ==
    CASE vote.kind = "Approve" ->
            LET step(i) == approve_option(proposal_data.options, vote.choices, voter_weight, i)
                bad == {i \in 1..Len(proposal_data.options) : step(i).err # "Ok"}
            IN  IF bad # {}
                THEN [err |-> step(CHOOSE i \in bad : \A j \in bad : i <= j).err,
                      proposal |-> proposal_data]
                ELSE [err |-> "Ok",
                      proposal |-> [proposal_data EXCEPT
                          !.options = [i \in 1..Len(proposal_data.options) |-> step(i).weight]]]
      [] vote.kind = "Deny" ->
            IF proposal_data.deny_vote_weight = None
            THEN [err |-> "Panic", proposal |-> proposal_data]
            ELSE LET sum == checked_add(proposal_data.deny_vote_weight[1], voter_weight, MaxWeight)
                 IN  IF sum = None
                     THEN [err |-> "Panic", proposal |-> proposal_data]
                     ELSE [err |-> "Ok",
                           proposal |-> [proposal_data EXCEPT !.deny_vote_weight = sum]]
      [] OTHER -> [err |-> "NotSupportedVoteType", proposal |-> proposal_data]

\* Mutant: the owner's record is decremented from its account data and written
\* after the voter's record, where the voter is the owner too.
tip_and_serialize_owner_last(proposal_info, proposal_owner_record_info, voter_token_owner_record_info, voter_data, proposal_data, tipped) ==
    LET voter_written ==
            [token_owner_records EXCEPT ![voter_token_owner_record_info] = voter_data]
    IN  [ Accounts EXCEPT
            !.token_owner_records =
                IF tipped
                THEN [voter_written EXCEPT ![proposal_owner_record_info] =
                         decrease_outstanding_proposal_count(
                             token_owner_records[proposal_owner_record_info])]
                ELSE voter_written,
            !.realm = IF tipped
                      THEN [realm EXCEPT !.voting_proposal_count = saturating_sub(@, 1)]
                      ELSE realm,
            !.governance = IF tipped
                           THEN [governance EXCEPT !.voting_proposal_count = saturating_sub(@, 1)]
                           ELSE governance,
            !.proposals = [proposals EXCEPT ![proposal_info] = proposal_data] ]

\* Mutant: the owner's record is decremented and written where the voter is the
\* owner too, and the voter's copy, written later, does not have the decrement;
\* the Realm count is left alone.
tip_and_serialize_stale_voter(proposal_info, proposal_owner_record_info, voter_token_owner_record_info, voter_data, proposal_data, tipped) ==
    LET owner_written ==
            IF tipped
            THEN [token_owner_records EXCEPT ![proposal_owner_record_info] =
                     decrease_outstanding_proposal_count(
                         token_owner_records[proposal_owner_record_info])]
            ELSE token_owner_records
    IN  [ Accounts EXCEPT
            !.token_owner_records =
                [owner_written EXCEPT ![voter_token_owner_record_info] = voter_data],
            !.governance = IF tipped
                           THEN [governance EXCEPT !.voting_proposal_count = saturating_sub(@, 1)]
                           ELSE governance,
            !.proposals = [proposals EXCEPT ![proposal_info] = proposal_data] ]

\* The block run when try_tip_vote returned true, and the serialize calls after
\* it: the accounts as written before the VoteRecord is created.
tip_and_serialize(proposal_info, proposal_owner_record_info, voter_token_owner_record_info, voter_data, proposal_data, tipped) ==
    LET same == proposal_owner_record_info = voter_token_owner_record_info
        proposal_owner_record_data == token_owner_records[proposal_owner_record_info]
        voter_final == IF tipped /\ same
                       THEN decrease_outstanding_proposal_count(voter_data)
                       ELSE voter_data
        owner_written ==
            IF tipped /\ ~same
            THEN [token_owner_records EXCEPT ![proposal_owner_record_info] =
                     decrease_outstanding_proposal_count(proposal_owner_record_data)]
            ELSE token_owner_records
    IN  [ Accounts EXCEPT
            !.token_owner_records =
                [owner_written EXCEPT ![voter_token_owner_record_info] = voter_final],
            !.realm = IF tipped
                      THEN [realm EXCEPT !.voting_proposal_count = saturating_sub(@, 1)]
                      ELSE realm,
            !.governance = IF tipped
                           THEN [governance EXCEPT !.voting_proposal_count = saturating_sub(@, 1)]
                           ELSE governance,
            !.proposals = [proposals EXCEPT ![proposal_info] = proposal_data] ]

\* Mutant: the VoteRecord does not take the vote cast.
new_vote_record_forgets_vote(proposal_info, voter_data, voter_weight, vote) ==
    [ proposal |-> proposal_info,
      governing_token_owner |-> voter_data.governing_token_owner,
      voter_weight |-> voter_weight,
      vote |-> Deny,
      is_relinquished |-> FALSE ]

\* Mutant: the VoteRecord does not take the resolved voter weight.
new_vote_record_without_weight(proposal_info, voter_data, voter_weight, vote) ==
    [ proposal |-> proposal_info,
      governing_token_owner |-> voter_data.governing_token_owner,
      voter_weight |-> 0,
      vote |-> vote,
      is_relinquished |-> FALSE ]

\* The VoteRecordV2 the cast creates.
new_vote_record(proposal_info, voter_data, voter_weight, vote) ==
    [ proposal |-> proposal_info,
      governing_token_owner |-> voter_data.governing_token_owner,
      voter_weight |-> voter_weight,
      vote |-> vote,
      is_relinquished |-> FALSE ]

\* Mutant: only total_votes_count is incremented.
record_vote_cast_total_only(voter_data) ==
    LET total == checked_add(voter_data.total_votes_count, 1, MaxCount)
    IN  IF total = None THEN None
        ELSE Some([voter_data EXCEPT !.total_votes_count = total[1]])

\* The vote counters of the voter's record, each checked_add(1).unwrap():
\* None when either overflows.
record_vote_cast(voter_data) ==
    LET unrelinquished == checked_add(voter_data.unrelinquished_votes_count, 1, MaxCount)
        total == checked_add(voter_data.total_votes_count, 1, MaxCount)
    IN  IF unrelinquished = None \/ total = None THEN None
        ELSE Some([voter_data EXCEPT
                     !.unrelinquished_votes_count = unrelinquished[1],
                     !.total_votes_count = total[1]])

\* Mutant: the signer is not checked.
cast_checks_skips_signer(proposal_info, voter_token_owner_record_info, governance_authority_info, vote_record_info) ==
    IF ~vote_record_is_empty(vote_record_info) THEN "VoteAlreadyExists"
    ELSE IF ~assert_can_cast_vote(proposals[proposal_info], now) THEN "InvalidState"
    ELSE "Ok"

\* Mutant: the proposal's state is checked before the VoteRecord account.
cast_checks_state_first(proposal_info, voter_token_owner_record_info, governance_authority_info, vote_record_info) ==
    IF ~assert_can_cast_vote(proposals[proposal_info], now) THEN "InvalidState"
    ELSE IF ~vote_record_is_empty(vote_record_info) THEN "VoteAlreadyExists"
    ELSE IF ~assert_token_owner_or_delegate_is_signer(
                token_owner_records[voter_token_owner_record_info], governance_authority_info)
    THEN "Unauthorized"
    ELSE "Ok"

\* Mutant: the proposal's state and voting time are not checked.
cast_checks_ignores_state(proposal_info, voter_token_owner_record_info, governance_authority_info, vote_record_info) ==
    IF ~vote_record_is_empty(vote_record_info) THEN "VoteAlreadyExists"
    ELSE IF ~assert_token_owner_or_delegate_is_signer(
                token_owner_records[voter_token_owner_record_info], governance_authority_info)
    THEN "Unauthorized"
    ELSE "Ok"

\* Mutant: the signer is checked before the proposal's state.
cast_checks_signer_first(proposal_info, voter_token_owner_record_info, governance_authority_info, vote_record_info) ==
    IF ~vote_record_is_empty(vote_record_info) THEN "VoteAlreadyExists"
    ELSE IF ~assert_token_owner_or_delegate_is_signer(
                token_owner_records[voter_token_owner_record_info], governance_authority_info)
    THEN "Unauthorized"
    ELSE IF ~assert_can_cast_vote(proposals[proposal_info], now) THEN "InvalidState"
    ELSE "Ok"

\* The checks made before the vote counters are touched: the first that
\* fails, or Ok.
cast_checks(proposal_info, voter_token_owner_record_info, governance_authority_info, vote_record_info) ==
    IF ~vote_record_is_empty(vote_record_info) THEN "VoteAlreadyExists"
    ELSE IF ~assert_can_cast_vote(proposals[proposal_info], now) THEN "InvalidState"
    ELSE IF ~assert_token_owner_or_delegate_is_signer(
                token_owner_records[voter_token_owner_record_info], governance_authority_info)
    THEN "Unauthorized"
    ELSE "Ok"

process_cast_vote(proposal_info, proposal_owner_record_info, voter_token_owner_record_info, governance_authority_info, vote_record_info, vote, voter_weight_record, max_voter_weight_record) ==
    LET checked == cast_checks(proposal_info, voter_token_owner_record_info,
                               governance_authority_info, vote_record_info)
    IN IF checked # "Ok" THEN Fail(checked)
    ELSE LET counted == record_vote_cast(token_owner_records[voter_token_owner_record_info])
    IN IF counted = None THEN Fail("Panic")
    ELSE LET voter_data == counted[1]
             resolved == resolve_voter_weight(voter_data, realm, voter_weight_record,
                                              "CastVote", proposal_info)
    IN IF resolved.err # "Ok" THEN Fail(resolved.err)
    ELSE IF ~assert_valid_vote(proposals[proposal_info], vote) THEN Fail("InvalidVoteType")
    ELSE LET voter_weight == resolved.weight
             applied == apply_vote(proposals[proposal_info], vote, voter_weight)
    IN IF applied.err # "Ok" THEN Fail(applied.err)
    ELSE LET max_resolved == resolve_max_voter_weight(realm, max_voter_weight_record)
    IN IF max_resolved.err # "Ok" THEN Fail(max_resolved.err)
    ELSE LET tip_state == try_tip_vote(applied.proposal, max_resolved.weight)
             tipped == tip_state # "Voting"
             proposal_data == [applied.proposal EXCEPT !.state = tip_state]
    IN IF tipped /\ ~is_proposal_owner_record(proposal_owner_record_info, proposal_data)
       THEN Fail("InvalidProposalOwnerAccount")
    ELSE LET written == tip_and_serialize(proposal_info, proposal_owner_record_info,
                                          voter_token_owner_record_info, voter_data,
                                          proposal_data, tipped)
    IN IF ~create_address_matches(vote_record_info, proposal_info, voter_token_owner_record_info)
       THEN Result("InvalidSeeds", written, FALSE, voter_weight)
       ELSE Result("Ok",
                   [written EXCEPT !.vote_records =
                       [vote_records EXCEPT ![vote_record_info] =
                           Some(new_vote_record(proposal_info, voter_data, voter_weight, vote))]],
                   tipped, voter_weight)

\* Mutant: the writes stay whatever the processor returned.
Commit_keeps_writes(result) == result.accounts

\* The runtime: the writes of a processor that returned an error are dropped.
Commit(result) == IF result.err = "Ok" THEN result.accounts ELSE Accounts

\* ---------------------------------------------- process_insert_instruction

\* proposal_transaction_info.data_is_empty()
transaction_is_empty(proposal_transaction_info) ==
    proposal_transactions[proposal_transaction_info].data_is_empty

\* Mutant: every paired account takes the flags of the first template entry.
zip_accounts_first_meta(instruction_keys, accounts) ==
    [ i \in 1..Min(Len(instruction_keys), Len(accounts)) |->
        [ pubkey |-> instruction_keys[i],
          is_signer |-> accounts[1].is_signer,
          is_writable |-> accounts[1].is_writable ] ]

\* instruction_keys.iter().zip(instruction.accounts.iter()).map(..).collect()
zip_accounts(instruction_keys, accounts) ==
    [ i \in 1..Min(Len(instruction_keys), Len(accounts)) |->
        [ pubkey |-> instruction_keys[i],
          is_signer |-> accounts[i].is_signer,
          is_writable |-> accounts[i].is_writable ] ]

\* The InstructionData pushed.
new_instruction(instruction_program_id, instruction_keys, instruction) ==
    [ program_id |-> instruction_program_id,
      accounts |-> zip_accounts(instruction_keys, instruction.accounts),
      data |-> instruction.data ]

\* Mutant: the entry is put in front.
push_instruction_in_front(proposal_transaction_info, entry) ==
    [ Accounts EXCEPT !.proposal_transactions =
        [ proposal_transactions EXCEPT ![proposal_transaction_info].instructions =
            <<entry>> \o @ ] ]

\* proposal_transaction.instructions.push(..), then serialize.
push_instruction(proposal_transaction_info, entry) ==
    [ Accounts EXCEPT !.proposal_transactions =
        [ proposal_transactions EXCEPT ![proposal_transaction_info].instructions =
            Append(@, entry) ] ]

\* Mutant: the owner record and the signer are checked before the proposal's
\* state.
insert_checks_signer_first(proposal_info, token_owner_record_info, governance_authority_info, proposal_transaction_info) ==
    IF transaction_is_empty(proposal_transaction_info) THEN "TransactionDoesNotExists"
    ELSE IF ~is_proposal_owner_record(token_owner_record_info, proposals[proposal_info])
    THEN "InvalidProposalOwnerAccount"
    ELSE IF ~assert_token_owner_or_delegate_is_signer(
                token_owner_records[token_owner_record_info], governance_authority_info)
    THEN "Unauthorized"
    ELSE IF ~assert_can_edit_instructions(proposals[proposal_info]) THEN "InvalidState"
    ELSE "Ok"

\* The checks made before the transaction account is deserialized: the first
\* that fails, or Ok.
insert_checks(proposal_info, token_owner_record_info, governance_authority_info, proposal_transaction_info) ==
    IF transaction_is_empty(proposal_transaction_info) THEN "TransactionDoesNotExists"
    ELSE IF ~assert_can_edit_instructions(proposals[proposal_info]) THEN "InvalidState"
    ELSE IF ~is_proposal_owner_record(token_owner_record_info, proposals[proposal_info])
    THEN "InvalidProposalOwnerAccount"
    ELSE IF ~assert_token_owner_or_delegate_is_signer(
                token_owner_records[token_owner_record_info], governance_authority_info)
    THEN "Unauthorized"
    ELSE "Ok"

process_insert_instruction(proposal_info, token_owner_record_info, governance_authority_info, proposal_transaction_info, instruction_program_id, instruction_keys, instruction) ==
    LET checked == insert_checks(proposal_info, token_owner_record_info,
                                 governance_authority_info, proposal_transaction_info)
    IN  IF checked # "Ok" THEN Fail(checked)
        ELSE Result("Ok",
                    push_instruction(proposal_transaction_info,
                        new_instruction(instruction_program_id, instruction_keys, instruction)),
                    FALSE, 0)

\* ------------------------------------------------------------ state machine

\* Instructions held by all ProposalTransaction accounts together.
TotalInstructions ==
    SumSeq([i \in 1..3 |->
        Len(proposal_transactions[<<"t1", "t2", "t3">>[i]].instructions)])

NoHistory ==
    [ applied |-> [p \in Proposals |-> 0],
      selected |-> [p \in Proposals |-> 0],
      tips |-> [p \in Proposals |-> 0],
      casts |-> [a \in VoteRecordAddresses |-> 0] ]

Init ==
    /\ token_owner_records =
         [ r \in Records |->
            IF r = "r1"
            THEN [ governing_token_owner |-> "alice",
                   governance_delegate |-> None,
                   governing_token_deposit_amount |-> 2,
                   unrelinquished_votes_count |-> MaxCount - 2,
                   total_votes_count |-> MaxCount - 2,
                   outstanding_proposal_count |-> 1 ]
            ELSE [ governing_token_owner |-> "bob",
                   governance_delegate |-> Some("alice"),
                   governing_token_deposit_amount |-> 1,
                   unrelinquished_votes_count |-> MaxCount - 1,
                   total_votes_count |-> MaxCount - 1,
                   outstanding_proposal_count |-> 0 ] ]
    /\ \E s1 \in {"Draft", "Voting"}, s2 \in {"Draft", "Voting"} :
         proposals =
           [ p \in Proposals |->
              IF p = "p1"
              THEN [ state |-> s1, token_owner_record |-> "r1",
                     vote_type |-> "SingleChoice", options |-> <<0, 0>>,
                     deny_vote_weight |-> Some(0), voting_at |-> 0 ]
              ELSE [ state |-> s2, token_owner_record |-> "r2",
                     vote_type |-> "MultiChoice", options |-> <<0, 0>>,
                     deny_vote_weight |-> None, voting_at |-> 0 ] ]
    /\ \E addin \in BOOLEAN :
         realm = [ voting_proposal_count |-> 1,
                   use_voter_weight_addin |-> addin,
                   use_max_voter_weight_addin |-> addin ]
    /\ governance = [ voting_proposal_count |-> 2 ]
    /\ vote_records = [a \in VoteRecordAddresses |-> None]
    /\ proposal_transactions =
         [ t \in Transactions |->
            [ data_is_empty |-> t = "t3",
              proposal |-> IF t = "t2" THEN "p2" ELSE "p1",
              instructions |-> <<>> ] ]
    /\ now = 0
    /\ last = [op |-> "none", err |-> "Ok"]
    /\ history = NoHistory

\* The accounts after the runtime has handled the processor's result.
Install(accounts) ==
    /\ token_owner_records' = accounts.token_owner_records
    /\ proposals' = accounts.proposals
    /\ realm' = accounts.realm
    /\ governance' = accounts.governance
    /\ vote_records' = accounts.vote_records
    /\ proposal_transactions' = accounts.proposal_transactions

\* What a committed cast adds to the history of its proposal.
Recorded(proposal_info, voter_token_owner_record_info, vote, result) ==
    IF result.err # "Ok" THEN history
    ELSE [ history EXCEPT
            !.applied[proposal_info] = @ + result.voter_weight,
            !.selected[proposal_info] = @ + result.voter_weight *
                (IF vote.kind = "Approve" THEN SelectedCount(vote.choices) ELSE 1),
            !.tips[proposal_info] = @ + (IF result.tipped THEN 1 ELSE 0),
            !.casts[get_vote_record_address(proposal_info, voter_token_owner_record_info)] = @ + 1 ]

\* The state after a cast that returned result.
CastDone(proposal_info, voter_token_owner_record_info, vote, result) ==
    /\ Install(Commit(result))
    /\ last' = [op |-> "cast", err |-> result.err]
    /\ history' = Recorded(proposal_info, voter_token_owner_record_info, vote, result)
    /\ now' = now

\* The caller names the VoteRecord account of some voter of the proposal.  The
\* other accounts and the vote are read once cast_checks passed, and the
\* weight records only when the realm uses the addin.
CastVote ==
    \E proposal_info \in Proposals,
       voter_token_owner_record_info \in Records,
       governance_authority_info \in Identities :
      \E vote_record_info \in {get_vote_record_address(proposal_info, r) : r \in Records} :
        IF cast_checks(proposal_info, voter_token_owner_record_info,
                       governance_authority_info, vote_record_info) # "Ok"
        THEN CastDone(proposal_info, voter_token_owner_record_info, Deny,
                 process_cast_vote(proposal_info, voter_token_owner_record_info,
                     voter_token_owner_record_info, governance_authority_info,
                     vote_record_info, Deny, None, None))
        ELSE \E proposal_owner_record_info \in Records,
                vote \in Votes,
                voter_weight_record \in
                    (IF realm.use_voter_weight_addin THEN VoterWeightRecords ELSE {None}),
                max_voter_weight_record \in
                    (IF realm.use_max_voter_weight_addin THEN MaxVoterWeightRecords ELSE {None}) :
                CastDone(proposal_info, voter_token_owner_record_info, vote,
                    process_cast_vote(proposal_info, proposal_owner_record_info,
                        voter_token_owner_record_info, governance_authority_info,
                        vote_record_info, vote, voter_weight_record,
                        max_voter_weight_record))

\* The state after an insert that returned result.
InsertDone(result) ==
    /\ Install(Commit(result))
    /\ last' = [op |-> "insert", err |-> result.err]
    /\ UNCHANGED << now, history >>

\* The instruction is read once insert_checks passed.
InsertInstruction ==
    \E proposal_info \in Proposals,
       token_owner_record_info \in Records,
       governance_authority_info \in Identities,
       proposal_transaction_info \in Transactions :
        IF insert_checks(proposal_info, token_owner_record_info,
                         governance_authority_info, proposal_transaction_info) # "Ok"
        THEN InsertDone(process_insert_instruction(proposal_info, token_owner_record_info,
                 governance_authority_info, proposal_transaction_info,
                 "prog", <<>>, [accounts |-> <<>>, data |-> "d1"]))
        ELSE /\ TotalInstructions < MaxInstructions
             /\ \E instruction_program_id \in InstructionPrograms,
                   instruction_keys \in InstructionKeys,
                   accounts \in AccountMetas,
                   data \in InstructionPayloads :
                    InsertDone(process_insert_instruction(proposal_info,
                        token_owner_record_info, governance_authority_info,
                        proposal_transaction_info, instruction_program_id,
                        instruction_keys, [accounts |-> accounts, data |-> data]))

\* The clock moves on between instructions.
Tick ==
    /\ now < MaxNow
    /\ now' = now + 1
    /\ last' = [op |-> "tick", err |-> "Ok"]
    /\ UNCHANGED << token_owner_records, proposals, realm, governance, vote_records,
                    proposal_transactions, history >>

Next == CastVote \/ InsertInstruction \/ Tick

Spec == Init /\ [][Next]_vars

\* The casts alone, and the inserts alone.
NextCast == CastVote \/ Tick
SpecCast == Init /\ [][NextCast]_vars

NextInsert == InsertInstruction
SpecInsert == Init /\ [][NextInsert]_vars

\* ------------------------------------------------------------------ claims

\* A cast by voter record v on proposal p: it names the pair's own VoteRecord
\* account, the address derived from (p, v).
CastOn(p, v, authority, owner_record, vote, vwr, mwr) ==
    process_cast_vote(p, owner_record, v, authority, get_vote_record_address(p, v),
                      vote, vwr, mwr)

\* VoteRecord accounts holding a vote of voter record v on proposal p.
VoteRecordsOf(p, v) ==
    { a \in VoteRecordAddresses :
        /\ vote_records[a] # None
        /\ vote_records[a][1].proposal = p
        /\ vote_records[a][1].governing_token_owner =
               token_owner_records[v].governing_token_owner }

\* C1 -- Replay-freedom.  For every (proposal, voter) pair at most one cast
\* ever commits and at most one VoteRecord of the pair exists, whichever
\* VoteRecord account the casts name; once the pair's VoteRecord exists every
\* cast of the pair fails, whatever its vote value, and a cast naming the
\* pair's VoteRecord account fails with VoteAlreadyExists.
C1_ReplayFreedom ==
    \A p \in Proposals, v \in Records :
        /\ history.casts[get_vote_record_address(p, v)] <= 1
        /\ Cardinality(VoteRecordsOf(p, v)) <= 1
        /\ (history.casts[get_vote_record_address(p, v)] = 1)
              <=> (vote_records[get_vote_record_address(p, v)] # None)
        /\ vote_records[get_vote_record_address(p, v)] # None =>
             \A authority \in Identities, owner_record \in Records, vote \in Votes,
                vwr \in VoterWeightRecords, mwr \in MaxVoterWeightRecords :
                /\ CastOn(p, v, authority, owner_record, vote, vwr, mwr).err
                       = "VoteAlreadyExists"
                /\ \A a \in VoteRecordAddresses :
                       process_cast_vote(p, owner_record, v, authority, a, vote,
                                         vwr, mwr).err # "Ok"

\* A repeated cast was rejected: the pair has its VoteRecord and the last cast
\* failed with VoteAlreadyExists.
C1_Witness ==
    /\ last = [op |-> "cast", err |-> "VoteAlreadyExists"]
    /\ \E a \in VoteRecordAddresses : history.casts[a] = 1

\* C2 (as claimed) -- Gating.  A cast on a proposal that is not Voting, or
\* outside the voting window, fails with InvalidState irrespective of every
\* other input, among them whether the pair's VoteRecord already exists.
C2_GatingAsClaimed ==
    \A p \in Proposals, v \in Records, authority \in Identities,
       owner_record \in Records, vote \in Votes,
       vwr \in VoterWeightRecords, mwr \in MaxVoterWeightRecords :
        ~assert_can_cast_vote(proposals[p], now) =>
            CastOn(p, v, authority, owner_record, vote, vwr, mwr).err = "InvalidState"

\* C2 (amended) -- Gating.  A cast on a proposal that is not Voting, or outside
\* the voting window, fails and writes nothing, irrespective of the vote value,
\* the authority and the weight sources; the error is InvalidState unless the
\* pair's VoteRecord already exists, and then it is VoteAlreadyExists.
C2_Gating ==
    \A p \in Proposals, v \in Records, authority \in Identities,
       owner_record \in Records, vote \in Votes,
       vwr \in VoterWeightRecords, mwr \in MaxVoterWeightRecords :
        ~assert_can_cast_vote(proposals[p], now) =>
            LET result == CastOn(p, v, authority, owner_record, vote, vwr, mwr)
            IN  /\ result.err =
                     IF vote_records[get_vote_record_address(p, v)] # None
                     THEN "VoteAlreadyExists" ELSE "InvalidState"
                /\ Commit(result) = Accounts

\* A cast was refused with InvalidState on a proposal a vote has tipped, and
\* another after the voting time ended.
C2_Witness ==
    /\ last = [op |-> "cast", err |-> "InvalidState"]
    /\ \A p \in Proposals : proposals[p].state # "Draft"
    /\ \/ now > MaxVotingTime
       \/ \A p \in Proposals : history.tips[p] = 1

\* C3 -- Rejected kinds.  A cast whose vote is Abstain or Veto fails with
\* NotSupportedVoteType when every other precondition holds: the pair has no
\* VoteRecord, the proposal is Voting inside the window, the authority is the
\* owner or the delegate, the vote counters can still be incremented and the
\* voter weight resolves.
C3_RejectedKinds ==
    \A p \in Proposals, v \in Records, authority \in Identities,
       owner_record \in Records, vote \in {Abstain, Veto},
       vwr \in VoterWeightRecords, mwr \in MaxVoterWeightRecords :
        ( /\ vote_records[get_vote_record_address(p, v)] = None
          /\ assert_can_cast_vote(proposals[p], now)
          /\ assert_token_owner_or_delegate_is_signer(token_owner_records[v], authority)
          /\ record_vote_cast(token_owner_records[v]) # None
          /\ resolve_voter_weight(token_owner_records[v], realm, vwr, "CastVote", p).err = "Ok" )
        => LET result == CastOn(p, v, authority, owner_record, vote, vwr, mwr)
           IN  /\ result.err = "NotSupportedVoteType"
               /\ Commit(result) = Accounts

\* An Abstain or Veto cast that met every other precondition was rejected.
C3_Witness ==
    last = [op |-> "cast", err |-> "NotSupportedVoteType"]

\* Sum of the option accumulators and the deny accumulator of proposal data.
TallySumOf(proposal_data) ==
    SumSeq(proposal_data.options) +
    (IF proposal_data.deny_vote_weight = None THEN 0 ELSE proposal_data.deny_vote_weight[1])

\* Sum of the option accumulators and the deny accumulator of a proposal.
TallySum(p) == TallySumOf(proposals[p])

\* C4 (as claimed) -- Tally equals applied weight.  The sum of the option
\* accumulators and the deny accumulator of a proposal equals the sum of the
\* resolved voter weights of the casts committed on it, for every vote shape
\* the cast accepts.
C4_TallyEqualsWeightAsClaimed ==
    \A p \in Proposals : TallySum(p) = history.applied[p]

\* C4 (amended) -- The sum of the option accumulators and the deny accumulator
\* of a proposal equals the sum, over the casts committed on it, of the resolved
\* voter weight counted once for each option the vote selects (once for a
\* Deny vote); so it is never below the sum of the weights, and the two are
\* equal on a proposal whose Approve votes select one option each.
C4_TallyEqualsSelectedWeight ==
    \A p \in Proposals :
        /\ TallySum(p) = history.selected[p]
        /\ TallySum(p) >= history.applied[p]
        /\ proposals[p].vote_type = "SingleChoice" => TallySum(p) = history.applied[p]

\* An Approve vote selecting two options was committed, and a Deny vote too.
C4_Witness ==
    /\ history.selected["p2"] = 2 * history.applied["p2"]
    /\ history.applied["p2"] > 0
    /\ proposals["p1"].deny_vote_weight # Some(0)

\* The step commits a cast of voter record v on proposal p.
CastCommitted(p, v) ==
    history'.casts[get_vote_record_address(p, v)] =
        history.casts[get_vote_record_address(p, v)] + 1

\* try_tip_vote returned true in the cast the step commits on proposal p.
TippedIn(p) == history'.tips[p] = history.tips[p] + 1

outstanding(records, r) == records[r].outstanding_proposal_count

\* C5 -- Tip side effects.  In a committed cast on proposal p try_tip_vote
\* returned true exactly when p left the Voting state.  When it did, the
\* outstanding_proposal_count of p's owner record, the Realm
\* voting_proposal_count and the Governance voting_proposal_count are each one
\* less than before, or still 0; when it did not, all three are as before.  No
\* other record's outstanding_proposal_count changes.
C5_TipSideEffects ==
    [][ \A p \in Proposals, v \in Records :
          CastCommitted(p, v) =>
            LET owner == proposals[p].token_owner_record
            IN  /\ TippedIn(p) <=> (proposals[p].state = "Voting" /\ proposals'[p].state # "Voting")
                /\ \A r \in Records \ {owner} :
                      outstanding(token_owner_records', r) = outstanding(token_owner_records, r)
                /\ IF TippedIn(p)
                   THEN /\ outstanding(token_owner_records', owner) =
                              saturating_sub(outstanding(token_owner_records, owner), 1)
                        /\ realm'.voting_proposal_count =
                              saturating_sub(realm.voting_proposal_count, 1)
                        /\ governance'.voting_proposal_count =
                              saturating_sub(governance.voting_proposal_count, 1)
                   ELSE /\ outstanding(token_owner_records', owner) =
                              outstanding(token_owner_records, owner)
                        /\ realm' = realm
                        /\ governance' = governance
      ]_vars

\* Both proposals were tipped: the first tip took each aggregate down by one,
\* the second found the Realm count and its owner's outstanding count at 0.
C5_Witness ==
    /\ \A p \in Proposals : history.tips[p] = 1
    /\ realm.voting_proposal_count = 0
    /\ governance.voting_proposal_count = 0
    /\ last = [op |-> "cast", err |-> "Ok"]

\* The VoteRecord accounts of proposal p.
VoteRecordsOn(records, p) == [r \in Records |-> records[get_vote_record_address(p, r)]]

\* C6 -- Tipping is final.  Once a cast has tipped a proposal no later cast on
\* it commits and its tallies, its state and its VoteRecords stay as they are;
\* no proposal is tipped twice; and the owners' outstanding_proposal_count and
\* the Realm and Governance voting_proposal_count change only in the one cast
\* that tips a proposal, whoever the voter is.
C6_TippingIsFinal ==
    [][ /\ \A p \in Proposals :
              history.tips[p] >= 1 =>
                /\ proposals'[p] = proposals[p]
                /\ proposals[p].state \in {"Succeeded", "Defeated"}
                /\ history'.tips[p] = 1
                /\ \A v \in Records : ~CastCommitted(p, v)
                /\ VoteRecordsOn(vote_records', p) = VoteRecordsOn(vote_records, p)
        /\ ( \/ realm' # realm
             \/ governance' # governance
             \/ \E r \in Records :
                   outstanding(token_owner_records', r) # outstanding(token_owner_records, r) )
           => \E p \in Proposals :
                 /\ history.tips[p] = 0 /\ history'.tips[p] = 1
                 /\ proposals[p].state = "Voting" /\ proposals'[p].state # "Voting"
                 /\ \A q \in Proposals \ {p} : history'.tips[q] = history.tips[q]
      ]_vars

\* Both proposals were tipped, and a later cast inside the voting window was
\* refused.
C6_Witness ==
    /\ \A p \in Proposals : history.tips[p] = 1
    /\ now = 0
    /\ last = [op |-> "cast", err |-> "InvalidState"]

queue(transactions, t) == transactions[t].instructions

\* s is t with one entry added at the end.
IsAppend(s, t) == Len(s) = Len(t) + 1 /\ SubSeq(s, 1, Len(t)) = t

\* C8 -- Queue append.  An insert that succeeds makes the queue of the
\* ProposalTransaction account it names one entry longer, the new entry last
\* and every earlier entry as and where it was, and changes no other queue; an
\* insert that fails changes none.
C8_QueueAppend ==
    [][ last'.op = "insert" =>
          IF last'.err = "Ok"
          THEN \E t \in Transactions :
                  /\ IsAppend(queue(proposal_transactions', t), queue(proposal_transactions, t))
                  /\ \A u \in Transactions \ {t} :
                        proposal_transactions'[u] = proposal_transactions[u]
          ELSE proposal_transactions' = proposal_transactions
      ]_vars

\* An insert appended a second entry, different from the first, to a queue.
C8_Witness ==
    /\ last = [op |-> "insert", err |-> "Ok"]
    /\ \E t \in Transactions :
          /\ Len(queue(proposal_transactions, t)) = 2
          /\ queue(proposal_transactions, t)[1] # queue(proposal_transactions, t)[2]

\* C9 (as claimed) -- An insert on a proposal that is not editable fails with
\* InvalidState for every combination of the other inputs, among them whether
\* the ProposalTransaction account exists.
C9_InsertNotEditableAsClaimed ==
    \A p \in Proposals, r \in Records, authority \in Identities, t \in Transactions,
       keys \in InstructionKeys, accounts \in AccountMetas :
        ~assert_can_edit_instructions(proposals[p]) =>
            process_insert_instruction(p, r, authority, t, "prog", keys,
                [accounts |-> accounts, data |-> "d1"]).err = "InvalidState"

\* C9 (amended) -- An insert on a proposal that is not editable fails and
\* changes no queue, for every combination of the other inputs; the error is
\* InvalidState when the ProposalTransaction account exists and
\* TransactionDoesNotExists when it does not.
C9_InsertNotEditable ==
    \A p \in Proposals, r \in Records, authority \in Identities, t \in Transactions,
       keys \in InstructionKeys, accounts \in AccountMetas :
        ~assert_can_edit_instructions(proposals[p]) =>
            LET result == process_insert_instruction(p, r, authority, t, "prog", keys,
                              [accounts |-> accounts, data |-> "d1"])
            IN  /\ result.err = IF transaction_is_empty(t)
                                THEN "TransactionDoesNotExists" ELSE "InvalidState"
                /\ Commit(result) = Accounts

\* An insert on a Voting proposal was refused with InvalidState.
C9_Witness ==
    /\ last = [op |-> "insert", err |-> "InvalidState"]
    /\ \E p \in Proposals : proposals[p].state = "Voting"

\* The queues of the ProposalTransaction accounts that belong to proposal p.
QueuesOf(transactions, p) ==
    [ t \in {u \in Transactions : transactions[u].proposal = p} |-> queue(transactions, t) ]

\* No proposal is in a state in which a cast and an insert can both succeed.
NeverBothVotableAndEditable ==
    \A p \in Proposals :
        ~(assert_can_cast_vote(proposals[p], now) /\ assert_can_edit_instructions(proposals[p]))

\* C10 -- Voting and queue editing never overlap.  Once a vote has been cast on
\* a proposal, or it has tipped, its instruction queues no longer change.
C10_VotedQueueFrozen ==
    [][ \A p \in Proposals :
          ( \/ \E v \in Records : history.casts[get_vote_record_address(p, v)] >= 1
            \/ proposals[p].state \in {"Succeeded", "Defeated"} )
          => QueuesOf(proposal_transactions', p) = QueuesOf(proposal_transactions, p)
      ]_vars

\* The authority is the owner or the delegate of TokenOwnerRecord r.
Authorized(r, authority) ==
    assert_token_owner_or_delegate_is_signer(token_owner_records[r], authority)

\* C11 (as claimed) -- Authorization.  A cast whose authority is neither the
\* owner nor the delegate of the voter's record, and an insert whose authority
\* is neither the owner nor the delegate of the proposal owner's record, fails
\* with Unauthorized, whatever the other inputs.
C11_AuthorizationAsClaimed ==
    /\ \A p \in Proposals, v \in Records, authority \in Identities,
          a \in VoteRecordAddresses :
          ~Authorized(v, authority) =>
             process_cast_vote(p, v, v, authority, a, Deny, None, None).err = "Unauthorized"
    /\ \A p \in Proposals, r \in Records, authority \in Identities, t \in Transactions :
          ~Authorized(proposals[p].token_owner_record, authority) =>
             process_insert_instruction(p, r, authority, t, "prog", <<>>,
                 [accounts |-> <<>>, data |-> "d1"]).err = "Unauthorized"

\* C11 (amended) -- Authorization.  No cast commits unless its authority is
\* the owner or the delegate of the voter's record, and no insert commits
\* unless its authority is the owner or the delegate of the record the proposal
\* names as its owner.  With any other authority the instruction returns
\* before it writes anything (Fail); the error is Unauthorized when every check
\* that runs before the signer check passes, and the error of the first of
\* those checks otherwise.
C11_Authorization ==
    /\ \A v \in Records, authority \in Identities :
          ~Authorized(v, authority) =>
            \A p \in Proposals, owner_record \in Records, vote \in Votes,
               vwr \in VoterWeightRecords, mwr \in MaxVoterWeightRecords :
              \A a \in {get_vote_record_address(p, r) : r \in Records} :
               process_cast_vote(p, owner_record, v, authority, a, vote, vwr, mwr) =
                   Fail(IF ~vote_record_is_empty(a) THEN "VoteAlreadyExists"
                        ELSE IF ~assert_can_cast_vote(proposals[p], now) THEN "InvalidState"
                        ELSE "Unauthorized")
    /\ \A p \in Proposals, authority \in Identities :
          ~Authorized(proposals[p].token_owner_record, authority) =>
            \A r \in Records, t \in Transactions, keys \in InstructionKeys,
               accounts \in AccountMetas :
               process_insert_instruction(p, r, authority, t, "prog", keys,
                       [accounts |-> accounts, data |-> "d1"]) =
                   Fail(IF transaction_is_empty(t) THEN "TransactionDoesNotExists"
                        ELSE IF ~assert_can_edit_instructions(proposals[p]) THEN "InvalidState"
                        ELSE IF ~is_proposal_owner_record(r, proposals[p])
                        THEN "InvalidProposalOwnerAccount"
                        ELSE "Unauthorized")

\* An insert by an authority that is neither owner nor delegate was refused
\* with Unauthorized, after authorized casts and inserts had committed.
C11_Witness ==
    /\ last = [op |-> "insert", err |-> "Unauthorized"]
    /\ \E a \in VoteRecordAddresses : history.casts[a] = 1
    /\ TotalInstructions > 0

\* The deny accumulator of a proposal, 0 where the proposal has no deny option.
DenyWeight(proposal_data) ==
    IF proposal_data.deny_vote_weight = None THEN 0 ELSE proposal_data.deny_vote_weight[1]

\* The cast passes every check made before the vote counters are incremented.
ReachesCounters(p, v, authority) ==
    cast_checks(p, v, authority, get_vote_record_address(p, v)) = "Ok"

\* The cast passes every check made before the vote is applied to the tallies,
\* and its voter weight resolves to w.
ReachesTallies(p, v, authority, vote, vwr, w) ==
    /\ ReachesCounters(p, v, authority)
    /\ record_vote_cast(token_owner_records[v]) # None
    /\ resolve_voter_weight(token_owner_records[v], realm, vwr, "CastVote", p)
           = [err |-> "Ok", weight |-> w]
    /\ assert_valid_vote(proposals[p], vote)

\* C12 -- Overflow-safe accumulation.  A cast that reaches the increment of the
\* vote counters with unrelinquished_votes_count or total_votes_count at the
\* largest value, and a cast that reaches the tallies with a voter weight that
\* takes a selected option's accumulator or the deny accumulator over the
\* largest value, aborts (the panic of checked_add(..).unwrap(), the fatal
\* ArithmeticOverflow) and writes nothing.  A cast that commits leaves each
\* counter at exactly one more than before and within the width, and every
\* counter and accumulator of every reachable state is within the width.
C12_OverflowSafe ==
    /\ \A r \in Records :
          /\ token_owner_records[r].unrelinquished_votes_count \in 0..MaxCount
          /\ token_owner_records[r].total_votes_count \in 0..MaxCount
    /\ \A p \in Proposals :
          /\ \A i \in 1..Len(proposals[p].options) : proposals[p].options[i] \in 0..MaxWeight
          /\ DenyWeight(proposals[p]) \in 0..MaxWeight
    /\ \A p \in Proposals, v \in Records, authority \in Identities :
         ReachesCounters(p, v, authority) =>
           \A owner_record \in Records, vote \in Votes,
              vwr \in VoterWeightRecords, mwr \in MaxVoterWeightRecords :
             LET result == CastOn(p, v, authority, owner_record, vote, vwr, mwr)
                 w == resolve_voter_weight(token_owner_records[v], realm, vwr, "CastVote", p).weight
                 after == result.accounts.token_owner_records[v]
             IN  /\ ( \/ token_owner_records[v].unrelinquished_votes_count + 1 > MaxCount
                      \/ token_owner_records[v].total_votes_count + 1 > MaxCount )
                    => result = Fail("Panic")
                 /\ ( /\ ReachesTallies(p, v, authority, vote, vwr, w)
                      /\ \/ /\ vote.kind = "Approve"
                            /\ \E i \in 1..Len(vote.choices) :
                                  vote.choices[i] = 100 /\ proposals[p].options[i] + w > MaxWeight
                         \/ /\ vote.kind = "Deny"
                            /\ DenyWeight(proposals[p]) + w > MaxWeight )
                    => result = Fail("Panic")
                 /\ result.err = "Ok" =>
                      /\ after.unrelinquished_votes_count =
                            token_owner_records[v].unrelinquished_votes_count + 1
                      /\ after.total_votes_count = token_owner_records[v].total_votes_count + 1
                      /\ after.total_votes_count <= MaxCount
                      /\ TallySumOf(result.accounts.proposals[p]) =
                            TallySum(p) + w * (IF vote.kind = "Approve"
                                               THEN SelectedCount(vote.choices) ELSE 1)

\* A cast aborted on an accumulator: every vote counter can still be
\* incremented, and some accumulator holds a weight already.
C12_Witness ==
    /\ last = [op |-> "cast", err |-> "Panic"]
    /\ \A r \in Records : record_vote_cast(token_owner_records[r]) # None
    /\ \E p \in Proposals : TallySum(p) > 0

\* Number of VoteRecords created for voter record r.
VoteRecordCount(records, r) ==
    Cardinality({p \in Proposals : records[get_vote_record_address(p, r)] # None})

\* C13 -- TokenOwnerRecord counter discipline.  In every step of casts and
\* inserts, the unrelinquished_votes_count and total_votes_count of a record
\* change only when the step commits a cast by that record's voter, and then
\* each by exactly +1, so total_votes_count grows by the number of VoteRecords
\* created for the voter; the record's outstanding_proposal_count never
\* increases and never goes below zero.  (A step that leaves every
\* TokenOwnerRecord and VoteRecord as it was commits no cast.)
C13_CounterDiscipline ==
    [][ IF token_owner_records' = token_owner_records /\ vote_records' = vote_records
        THEN history'.casts = history.casts
        ELSE \A r \in Records :
          LET before == token_owner_records[r]
              after == token_owner_records'[r]
              cast == IF \E p \in Proposals : CastCommitted(p, r) THEN 1 ELSE 0
          IN  /\ after.unrelinquished_votes_count = before.unrelinquished_votes_count + cast
              /\ after.total_votes_count = before.total_votes_count + cast
              /\ cast = 1 => last' = [op |-> "cast", err |-> "Ok"]
              /\ after.total_votes_count - before.total_votes_count =
                    VoteRecordCount(vote_records', r) - VoteRecordCount(vote_records, r)
              /\ after.outstanding_proposal_count <= before.outstanding_proposal_count
              /\ after.outstanding_proposal_count >= 0
      ]_vars

\* After an insert: a voter's cast had tipped a proposal whose owner's
\* outstanding_proposal_count was 0 already, and the voter's counters are one
\* above where they started.
C13_Witness ==
    /\ last = [op |-> "insert", err |-> "Ok"]
    /\ history.tips["p2"] = 1
    /\ token_owner_records["r2"].outstanding_proposal_count = 0
    /\ vote_records[get_vote_record_address("p2", "r1")] # None
    /\ token_owner_records["r1"].total_votes_count = MaxCount - 1

\* C14 -- Monotonic tally.  In every step taken while a proposal is Voting, no
\* option accumulator of the proposal and not its deny accumulator decreases,
\* so their sum does not decrease either.
C14_MonotonicTally ==
    [][ \A p \in Proposals :
          proposals[p].state = "Voting" =>
            /\ TallySumOf(proposals'[p]) >= TallySum(p)
            /\ Len(proposals'[p].options) = Len(proposals[p].options)
            /\ \A i \in 1..Len(proposals[p].options) :
                  proposals'[p].options[i] >= proposals[p].options[i]
            /\ DenyWeight(proposals'[p]) >= DenyWeight(proposals[p])
            /\ (proposals'[p].deny_vote_weight = None) <=> (proposals[p].deny_vote_weight = None)
      ]_vars

\* Two casts on one proposal have committed, the first without tipping it, and
\* both its options hold weight.
C14_Witness ==
    \E p \in Proposals :
        /\ \A r \in Records : history.casts[get_vote_record_address(p, r)] = 1
        /\ \A i \in 1..Len(proposals[p].options) : proposals[p].options[i] > 0
        /\ last = [op |-> "cast", err |-> "Ok"]

\* Times the voter weight of a vote is added to the tallies: once for each
\* option an Approve vote selects, once for a Deny vote.
Additions(vote) == IF vote.kind = "Approve" THEN SelectedCount(vote.choices) ELSE 1

\* What a cast that passed cast_checks returned, for the VoteRecord of C15.
SnapshotOf(p, v, a, vote, w, result) ==
    /\ result.err = "Ok" =>
         /\ a = get_vote_record_address(p, v)
         /\ result.accounts.vote_records =
               [ vote_records EXCEPT ![a] =
                   Some([ proposal |-> p,
                          governing_token_owner |-> token_owner_records[v].governing_token_owner,
                          voter_weight |-> w,
                          vote |-> vote,
                          is_relinquished |-> FALSE ]) ]
         /\ result.voter_weight = w
         /\ TallySumOf(result.accounts.proposals[p]) = TallySum(p) + w * Additions(vote)
    /\ result.err = "InvalidSeeds" =>
         /\ a # get_vote_record_address(p, v)
         /\ result.accounts.vote_records = vote_records
         /\ result.accounts.token_owner_records[v].total_votes_count =
               token_owner_records[v].total_votes_count + 1
         /\ TallySumOf(result.accounts.proposals[p]) = TallySum(p) + w * Additions(vote)
    /\ result.err \notin {"Ok", "InvalidSeeds"} => result.accounts = Accounts

\* C15 -- VoteRecord snapshot and immutability.  A cast that succeeds creates
\* the VoteRecord of (proposal, voter), at the address derived from the pair,
\* holding the proposal, the voter's governing_token_owner, the vote cast,
\* is_relinquished = false and the resolved voter weight, the weight the same
\* cast added to the tallies; it creates or changes no other VoteRecord.  The
\* creation is the last write: a cast that fails there has written the voter's
\* record and the proposal already, and a cast that fails earlier has written
\* nothing.  No step of a cast or an insert changes a VoteRecord that exists.
C15_VoteRecordSnapshot ==
    /\ [](\A p \in Proposals, v \in Records, authority \in Identities :
            \A a \in {get_vote_record_address(p, r) : r \in Records} :
              cast_checks(p, v, authority, a) = "Ok" =>
                \A owner_record \in Records, vote \in Votes,
                   vwr \in VoterWeightRecords, mwr \in MaxVoterWeightRecords :
                  SnapshotOf(p, v, a, vote,
                      resolve_voter_weight(token_owner_records[v], realm, vwr,
                                           "CastVote", p).weight,
                      process_cast_vote(p, owner_record, v, authority, a, vote, vwr, mwr)))
    /\ [][ vote_records' # vote_records =>
             \A a \in VoteRecordAddresses :
                vote_records[a] # None => vote_records'[a] = vote_records[a] ]_vars

\* After an insert: both voters' VoteRecords on a proposal exist, the first
\* created before the second voter's cast, and they hold different votes.
C15_Witness ==
    /\ last = [op |-> "insert", err |-> "Ok"]
    /\ \E p \in Proposals :
          /\ \A r \in Records : vote_records[get_vote_record_address(p, r)] # None
          /\ vote_records[get_vote_record_address(p, "r1")][1].vote #
                vote_records[get_vote_record_address(p, "r2")][1].vote
          /\ vote_records[get_vote_record_address(p, "r1")][1].voter_weight > 0

\* C16 -- Account pairing on insert.  An insert that passes its checks
\* succeeds whatever the numbers of account references and template entries,
\* and appends to the queue it names an entry with the program id and the data
\* supplied, whose account list is as long as the shorter of the two sequences;
\* its i-th account has the key of the i-th account reference and the
\* is_signer and is_writable flags of the i-th template entry.
C16_AccountPairing ==
    \A p \in Proposals, r \in Records, authority \in Identities, t \in Transactions :
      insert_checks(p, r, authority, t) = "Ok" =>
        \A program \in InstructionPrograms, keys \in InstructionKeys,
           accounts \in AccountMetas, data \in InstructionPayloads :
          LET result == process_insert_instruction(p, r, authority, t, program, keys,
                            [accounts |-> accounts, data |-> data])
              after == queue(result.accounts.proposal_transactions, t)
              entry == after[Len(after)]
              shorter == IF Len(keys) <= Len(accounts) THEN Len(keys) ELSE Len(accounts)
          IN  /\ result.err = "Ok"
              /\ IsAppend(after, queue(proposal_transactions, t))
              /\ entry.program_id = program
              /\ entry.data = data
              /\ Len(entry.accounts) = shorter
              /\ \A i \in 1..shorter :
                    /\ entry.accounts[i].pubkey = keys[i]
                    /\ entry.accounts[i].is_signer = accounts[i].is_signer
                    /\ entry.accounts[i].is_writable = accounts[i].is_writable

\* An insert on a queue of one instruction, which has two paired accounts of
\* different flags, appended an entry with one paired account.
C16_Witness ==
    /\ last = [op |-> "insert", err |-> "Ok"]
    /\ \E t \in Transactions :
          LET q == queue(proposal_transactions, t)
          IN  /\ Len(q) = 2
              /\ Len(q[1].accounts) = 2
              /\ q[1].accounts[1].is_signer # q[1].accounts[2].is_signer
              /\ Len(q[2].accounts) = 1

\* C17 -- The result of applying the vote.  In a cast that succeeds with
\* resolved voter weight w, an Approve vote leaves each option it selects with
\* w more than before, the full weight for each, and every option it does not
\* select and the deny accumulator as before; a Deny vote leaves the deny
\* accumulator with w more than before and every option as before.
C17_ApplyVoteResult ==
    \A p \in Proposals, v \in Records, authority \in Identities :
      ReachesCounters(p, v, authority) =>
        \A owner_record \in Records, vote \in Votes,
           vwr \in VoterWeightRecords, mwr \in MaxVoterWeightRecords :
          LET result == CastOn(p, v, authority, owner_record, vote, vwr, mwr)
              w == resolve_voter_weight(token_owner_records[v], realm, vwr, "CastVote", p).weight
              before == proposals[p]
              after == result.accounts.proposals[p]
          IN  result.err = "Ok" =>
                /\ vote.kind \in {"Approve", "Deny"}
                /\ Len(after.options) = Len(before.options)
                /\ \A i \in 1..Len(before.options) :
                      after.options[i] =
                         IF vote.kind = "Approve" /\ vote.choices[i] = 100
                         THEN before.options[i] + w
                         ELSE before.options[i]
                /\ after.deny_vote_weight =
                      IF vote.kind = "Deny" THEN Some(before.deny_vote_weight[1] + w)
                      ELSE before.deny_vote_weight

\* Casts have committed an Approve vote that selects both options, each of
\* which got the full weight, and a Deny vote.
C17_Witness ==
    /\ \E r \in Records :
          /\ vote_records[get_vote_record_address("p2", r)] # None
          /\ vote_records[get_vote_record_address("p2", r)][1].vote = Approve(<<100, 100>>)
          /\ vote_records[get_vote_record_address("p2", r)][1].voter_weight > 0
          /\ proposals["p2"].options[1] = proposals["p2"].options[2]
    /\ \E r \in Records :
          /\ vote_records[get_vote_record_address("p1", r)] # None
          /\ vote_records[get_vote_record_address("p1", r)][1].vote = Deny
          /\ DenyWeight(proposals["p1"]) > 0

\* TokenOwnerRecord data with both vote counters one higher.
Counted(record_data) ==
    [record_data EXCEPT !.unrelinquished_votes_count = @ + 1, !.total_votes_count = @ + 1]

\* TokenOwnerRecord data with outstanding_proposal_count one lower, or still 0.
Decremented(record_data) ==
    [record_data EXCEPT !.outstanding_proposal_count = IF @ = 0 THEN 0 ELSE @ - 1]

\* C18 -- No lost update under owner/voter aliasing.  In a cast that succeeds
\* and tips the proposal, the record supplied as the owner's is the record the
\* proposal names as its owner.  When it is the voter's record too, that record
\* is left with both vote counters one higher and outstanding_proposal_count
\* one lower (or still 0); when it is not, the voter's record is left with only
\* the vote counters one higher and the owner's record with only
\* outstanding_proposal_count one lower (or still 0).  A cast that succeeds
\* without tipping leaves the voter's record with only the vote counters one
\* higher.  No other TokenOwnerRecord changes.
C18_NoLostUpdate ==
    \A p \in Proposals, v \in Records, authority \in Identities :
      ReachesCounters(p, v, authority) =>
        \A owner_record \in Records, vote \in Votes,
           vwr \in VoterWeightRecords, mwr \in MaxVoterWeightRecords :
          LET result == CastOn(p, v, authority, owner_record, vote, vwr, mwr)
              after == result.accounts.token_owner_records
              owner == proposals[p].token_owner_record
          IN  result.err = "Ok" =>
                IF result.tipped
                THEN /\ owner_record = owner
                     /\ after =
                          IF owner = v
                          THEN [token_owner_records EXCEPT
                                   ![v] = Decremented(Counted(token_owner_records[v]))]
                          ELSE [token_owner_records EXCEPT
                                   ![v] = Counted(token_owner_records[v]),
                                   ![owner] = Decremented(token_owner_records[owner])]
                ELSE after = [token_owner_records EXCEPT ![v] = Counted(token_owner_records[v])]

\* One voter alone voted on both proposals and tipped both: the one it owns,
\* where its one record took the two increments and the decrement, and the one
\* the other record owns.
C18_Witness ==
    /\ \A p \in Proposals :
          /\ history.tips[p] = 1
          /\ vote_records[get_vote_record_address(p, "r1")] # None
          /\ vote_records[get_vote_record_address(p, "r2")] = None
    /\ proposals["p1"].token_owner_record = "r1"
    /\ proposals["p2"].token_owner_record = "r2"
    /\ token_owner_records["r1"].total_votes_count = MaxCount
    /\ token_owner_records["r1"].unrelinquished_votes_count = MaxCount
    /\ token_owner_records["r1"].outstanding_proposal_count = 0
    /\ token_owner_records["r2"].total_votes_count = MaxCount - 1

\* The error of the earliest step of a cast that fails, among the steps the
\* processor takes before it resolves the voter weight; "Later" when all pass.
EarliestCheckFailure(p, v, authority, a) ==
    IF vote_records[a] # None THEN "VoteAlreadyExists"
    ELSE IF ~assert_can_cast_vote(proposals[p], now) THEN "InvalidState"
    ELSE IF ~Authorized(v, authority) THEN "Unauthorized"
    ELSE IF \/ token_owner_records[v].unrelinquished_votes_count >= MaxCount
            \/ token_owner_records[v].total_votes_count >= MaxCount
    THEN "Panic"
    ELSE "Later"

\* The same among the steps from the weight resolution to the restriction of
\* the vote kind.
EarliestVoteFailure(p, v, vote, vwr) ==
    LET resolved == resolve_voter_weight(token_owner_records[v], realm, vwr, "CastVote", p)
    IN  IF resolved.err # "Ok" THEN resolved.err
        ELSE IF ~assert_valid_vote(proposals[p], vote) THEN "InvalidVoteType"
        ELSE IF vote.kind \in {"Abstain", "Veto"} THEN "NotSupportedVoteType"
        ELSE "Later"

\* C19 (as claimed) -- Error precedence in the cast.  The error of a cast is
\* that of the earliest failing step among the six the claim lists: replay
\* check, state check, signer check, voter-weight resolution, vote validation,
\* vote-kind restriction; no other step comes between them.
C19_ErrorPrecedenceAsClaimed ==
    \A p \in Proposals, v \in Records, authority \in Identities,
       vote \in Votes, vwr \in VoterWeightRecords :
      LET a == get_vote_record_address(p, v)
          listed == IF vote_records[a] # None THEN "VoteAlreadyExists"
                    ELSE IF ~assert_can_cast_vote(proposals[p], now) THEN "InvalidState"
                    ELSE IF ~Authorized(v, authority) THEN "Unauthorized"
                    ELSE EarliestVoteFailure(p, v, vote, vwr)
      IN  listed # "Later" =>
            process_cast_vote(p, v, v, authority, a, vote, vwr, None).err = listed

\* C19 (amended) -- Error precedence in the cast.  In every reachable state
\* and for every input, the error of a cast is that of the earliest step that
\* fails, in the order: VoteRecord account not empty
\* (VoteAlreadyExists), proposal not votable (InvalidState), authority neither
\* owner nor delegate (Unauthorized), a vote counter at its largest value (the
\* abort of the overflow), voter weight not resolved (AttestationNotFound,
\* AttestationScopeMismatch), vote not valid (InvalidVoteType), vote kind not
\* supported (NotSupportedVoteType).  The failing cast has written nothing.  A
\* cast in which all these steps pass fails with none of their errors but the
\* abort of an accumulator overflow or an unresolved max voter weight.  In
\* particular a cast on a proposal that is not votable, naming an empty
\* VoteRecord account, fails with InvalidState whatever the weight records are.
C19_ErrorPrecedence ==
    [](\A p \in Proposals, v \in Records, authority \in Identities :
          \A a \in {get_vote_record_address(p, r) : r \in Records} :
            LET check == EarliestCheckFailure(p, v, authority, a)
                refused == Fail(check)
            IN  IF check # "Later"
                THEN \A owner_record \in Records, vote \in Votes,
                        vwr \in VoterWeightRecords, mwr \in MaxVoterWeightRecords :
                        process_cast_vote(p, owner_record, v, authority, a, vote, vwr, mwr)
                            = refused
                ELSE \A vote \in Votes, vwr \in VoterWeightRecords :
                        LET late == EarliestVoteFailure(p, v, vote, vwr)
                            rejected == Fail(late)
                        IN  \A owner_record \in Records, mwr \in MaxVoterWeightRecords :
                              LET result == process_cast_vote(p, owner_record, v, authority, a,
                                                              vote, vwr, mwr)
                              IN  IF late # "Later"
                                  THEN result = rejected
                                  ELSE result.err \in
                                         {"Ok", "Panic", "AttestationNotFound",
                                          "InvalidProposalOwnerAccount", "InvalidSeeds"})

\* A cast that named an existing VoteRecord of a proposal that is no longer
\* Voting, two steps failing at once, was refused with VoteAlreadyExists.
C19_Witness ==
    /\ last = [op |-> "cast", err |-> "VoteAlreadyExists"]
    /\ \A p \in Proposals : proposals[p].state # "Voting"
    /\ \E a \in VoteRecordAddresses : vote_records[a] # None

\* Sum of f over the set S.
RECURSIVE SumOver(_, _)
SumOver(S, f) ==
    IF S = {} THEN 0
    ELSE LET x == CHOOSE y \in S : TRUE
         IN  f[x] + SumOver(S \ {x}, f)

\* The VoteRecord accounts that hold a vote on proposal p.
LedgerOf(p) ==
    {a \in VoteRecordAddresses : vote_records[a] # None /\ vote_records[a][1].proposal = p}

\* The snapshotted voter_weight of the VoteRecords in S.
LedgerWeight(S) == SumOver(S, [a \in S |-> vote_records[a][1].voter_weight])

\* C20 -- Tally/ledger consistency.  In every reachable state each option's
\* vote_weight is the sum of the voter_weight of the proposal's VoteRecords
\* whose Approve vote selects the option, and deny_vote_weight is the sum of
\* the voter_weight of its Deny VoteRecords.  The tallies are thus a function
\* of the set of VoteRecords, whatever the order in which the casts that
\* created them were taken.
C20_TallyLedgerConsistency ==
    \A p \in Proposals :
        /\ \A i \in 1..Len(proposals[p].options) :
              proposals[p].options[i] =
                 LedgerWeight({a \in LedgerOf(p) :
                     /\ vote_records[a][1].vote.kind = "Approve"
                     /\ vote_records[a][1].vote.choices[i] = 100})
        /\ DenyWeight(proposals[p]) =
              LedgerWeight({a \in LedgerOf(p) : vote_records[a][1].vote.kind = "Deny"})
        /\ \A a \in LedgerOf(p) : vote_records[a][1].vote.kind \in {"Approve", "Deny"}

\* Two voters have voted on a proposal that is still Voting, one Approve and
\* one Deny, each with a weight.
C20_Witness ==
    \E p \in Proposals :
        /\ proposals[p].state = "Voting"
        /\ Cardinality(LedgerOf(p)) = 2
        /\ \E a \in LedgerOf(p) :
              vote_records[a][1].vote.kind = "Approve" /\ vote_records[a][1].voter_weight > 0
        /\ \E a \in LedgerOf(p) :
              vote_records[a][1].vote.kind = "Deny" /\ vote_records[a][1].voter_weight > 0

====
